---- MODULE Spec2Model ----
(***************************************************************************)
(* TypeFuzz prototype (PUZZLE/TYPEFUZZ/TypeFuzzPrototype.cpp): a typed     *)
(* random term generator over a mock cvc5 solver, and the fuzz campaign     *)
(* that asserts the generated terms, checks satisfiability and resets.     *)
(*                                                                         *)
(* A cvc5::Term holds a string; it is modelled as the sequence of the       *)
(* string's blank-separated tokens ("(" and ")" being tokens of their own). *)
(* std::mt19937 is modelled as a deterministic generator whose state is a   *)
(* seed (a finite cycle of 32-bit outputs) and a position in it; the seed   *)
(* is the only nondeterministic input, drawn by std::random_device when the *)
(* TypeFuzz object is constructed.  std::uniform_int_distribution is the    *)
(* one of libstdc++: it multiplies an output by the size of the range,      *)
(* keeps the high word, and draws again when the low word is too small.     *)
(***************************************************************************)
EXTENDS Integers, Sequences, FiniteSets, TLC

VARIABLES
    pc,                    \* position of the caller / of fuzz's loops
    num_tests,             \* fuzz parameter
    constraints_per_test,  \* fuzz parameter
    test_num,              \* outer loop counter of fuzz
    i,                     \* inner loop counter of fuzz
    constraints,           \* fuzz's local vector of generated terms
    solver,                \* cvc5::Solver::constraints
    rng,                   \* std::mt19937 state
    stack,                 \* activation records of the recursive generators
    ret,                   \* value returned by the last generator call
    calls,                 \* history: the solver calls made so far
    out,                   \* history: the lines written to std::cout
    prev                   \* history: [seed, terms] of the previous campaign

vars == <<pc, num_tests, constraints_per_test, test_num, i, constraints,
          solver, rng, stack, ret, calls, out, prev>>

---------------------------------------------------------------------------
(* Bounds of the model. *)

\* Number of distinct 32-bit outputs the modelled engine can return (the first
\* NumRaw entries of RawSamples).
NumRaw == 3
\* Longest seed cycle of an object whose generators are called directly.
MaxSeedLen == 4
\* Longest seed cycle of an object that runs a campaign.
MaxCampaignSeedLen == 2
\* Largest num_tests / constraints_per_test a caller passes to fuzz.
MaxTests == 2
MaxConstraints == 2
\* Largest depth a caller passes to generateArithmetic / generateBooleanExpr.
MaxStartDepth == 3
\* Capacity of the modelled call stack.
MaxStack == 8
\* Longest call history of the stand-alone solver.
MaxCalls == 4

(* Program constants. *)

\* generateInteger's default range.
IntMin == -100
IntMax == 100
\* Hard depth caps of the two generators.
ArithMaxDepth == 2
BoolMaxDepth == 1
\* The arguments main passes to fuzz.
MainTests == 3
MainConstraints == 2

---------------------------------------------------------------------------
(* std::mt19937 and std::random_device *)

\* A 32-bit engine output, kept as its two 16-bit halves: hi * 2^16 + lo.
Half == 65536
Word(hi, lo) == [hi |-> hi, lo |-> lo]

\* rng() % m for a small modulus m.
Mod(w, m) == (((w.hi % m) * (Half % m)) + (w.lo % m)) % m

\* Outputs of the engine the model draws from.
RawSamples ==
    <<Word(0, 0),            \* 0
      Word(0, 1),            \* 1
      Word(65535, 65534),    \* 4294967294
      Word(44994, 56733),    \* 2948783517
      Word(6409, 45063),     \* 420065287
      Word(14375, 2305)>>    \* 942082305

RawValues == {RawSamples[k] : k \in 1..NumRaw}

\* The 64-bit product  _Wp(__g()) * _Wp(__range)  of the distribution, as its
\* high 32 bits (a number below range) and its low 32 bits (a word).
Product(raw, range) ==
    LET a   == raw.hi * range
        b   == raw.lo * range
        mid == a + (b \div Half)
    IN  [high |-> mid \div Half, low |-> Word(mid % Half, b % Half)]

\* w < n, for n below 2^16.
Below(w, n) == w.hi = 0 /\ w.lo < n

\* -__range % __range in 32-bit unsigned arithmetic: 2^32 % range.
Threshold(range) == ((Half % range) * (Half % range)) % range

\* The distribution draws this output again.
Rejected(raw, range) == Below(Product(raw, range).low, Threshold(range))

\* The ranges [min, max] generateInteger is called with.
IntRanges == {<<IntMin, IntMax>>, <<0, 0>>, <<1, 6>>}

\* An engine does not return rejected outputs for ever (mt19937 is
\* equidistributed: no more than 623 outputs in a row can all be rejected), so
\* a seed cycle holds an output the distribution accepts, for every range.
Usable(seed) ==
    \A rg \in IntRanges :
        \E j \in 1..Len(seed) : ~Rejected(seed[j], (rg[2] - rg[1]) + 1)

RECURSIVE SeqsUpTo(_)
SeqsUpTo(n) ==
    IF n = 0 THEN {}
    ELSE SeqsUpTo(n - 1) \cup {seed \in [1..n -> RawValues] : Usable(seed)}

\* The values std::random_device{}() may hand to the engine's constructor.
Seeds == SeqsUpTo(MaxSeedLen)
CampaignSeeds == SeqsUpTo(MaxCampaignSeedLen)

\* rng(seed)
mt19937(seed) == [seed |-> seed, idx |-> 1]

\* The value the next rng() returns, and the engine after that call.
Draw(r) == r.seed[r.idx]
Advance(r) == [r EXCEPT !.idx = (r.idx % Len(r.seed)) + 1]

RECURSIVE Redraw(_, _, _)
\* while (__low < __threshold) { __product = _Wp(__g()) * _Wp(__range); ... }
Redraw(r, range, product) ==
    IF Below(product.low, Threshold(range))
    THEN Redraw(Advance(r), range, Product(Draw(r), range))
    ELSE [ret |-> product.high, rng |-> r]

\* uniform_int_distribution::_S_nd(__g, __range): the number below range drawn
\* from the engine, and the engine after the draws.
S_nd(r, range) ==
    LET product == Product(Draw(r), range) IN
      IF Below(product.low, range)
      THEN Redraw(Advance(r), range, product)
      ELSE [ret |-> product.high, rng |-> Advance(r)]

\* std::uniform_int_distribution<int>(min, max)(rng), for max - min below
\* 2^15: the value drawn and the engine after the draws.
uniform_int_distribution(min, max, r) ==
    LET d == S_nd(r, (max - min) + 1) IN
      [value |-> d.ret + min, rng |-> d.rng]

---------------------------------------------------------------------------
(* cvc5::Kind, cvc5::Term, cvc5::Solver (the mock) *)

Kinds == {"ADD", "SUB", "MULT", "GT", "LT", "EQUAL", "AND", "OR", "XOR"}

\* The switch of mkTerm.
kind_str(kind) ==
    CASE kind = "ADD"   -> "+"
      [] kind = "SUB"   -> "-"
      [] kind = "MULT"  -> "*"
      [] kind = "GT"    -> ">"
      [] kind = "LT"    -> "<"
      [] kind = "EQUAL" -> "="
      [] kind = "AND"   -> "and"
      [] kind = "OR"    -> "or"
      [] kind = "XOR"   -> "xor"

RECURSIVE Concat(_)
Concat(ss) == IF ss = <<>> THEN <<>> ELSE Head(ss) \o Concat(Tail(ss))

mkInteger(value) == <<ToString(value)>>

mkBoolean(value) == <<IF value THEN "true" ELSE "false">>

\* "(" + kind_str, then " " + child for every child, then ")".
mkTerm(kind, children) == <<"(", kind_str(kind)>> \o Concat(children) \o <<")">>

assertFormula(cs, formula) == Append(cs, formula)

\* Result::isSat of the mock.
isSat == TRUE
isUnsat == ~isSat
\* Result::toString
ResultToString == IF isSat THEN "sat" ELSE "unsat"

\* checkSat that consumes the assertions it has checked.
checkSat_Consumes(cs) == [solver |-> <<>>, result |-> ResultToString]

\* checkSat leaves the solver as it is and returns a Result.
checkSat(cs) == [solver |-> cs, result |-> ResultToString]

\* resetAssertions that forgets to clear.
resetAssertions_Keeps(cs) == cs

resetAssertions(cs) == <<>>

---------------------------------------------------------------------------
(* TypeFuzz: the leaf generators *)

\* generateInteger(min, max): the literal, and the engine after the draw.
generateInteger(r, min, max) ==
    LET dist == uniform_int_distribution(min, max, r) IN
      [term |-> mkInteger(dist.value), rng |-> dist.rng]

\* generateBoolean(): value = rng() % 2 == 1.
generateBoolean(r) ==
    [term |-> mkBoolean(Mod(Draw(r), 2) = 1), rng |-> Advance(r)]

\* ArithTerminal without the hard cap: only the coin stops the recursion.
ArithTerminal_CoinOnly(depth, r) ==
    IF depth > 0 THEN [stop |-> (Mod(Draw(r), 3) = 0), rng |-> Advance(r)]
    ELSE [stop |-> FALSE, rng |-> r]

\* ArithTerminal with the hard cap one level too deep (depth > 3).
ArithTerminal_CapTooDeep(depth, r) ==
    IF depth > ArithMaxDepth + 1 THEN [stop |-> TRUE, rng |-> r]
    ELSE IF depth > 0 THEN [stop |-> (Mod(Draw(r), 3) = 0), rng |-> Advance(r)]
    ELSE [stop |-> FALSE, rng |-> r]

\* The condition  depth > 2 || (depth > 0 && rng() % 3 == 0)  of
\* generateArithmetic, evaluated left to right with short circuit: whether it
\* holds, and the engine after the draws it made.
ArithTerminal(depth, r) ==
    IF depth > ArithMaxDepth THEN [stop |-> TRUE, rng |-> r]
    ELSE IF depth > 0 THEN [stop |-> (Mod(Draw(r), 3) = 0), rng |-> Advance(r)]
    ELSE [stop |-> FALSE, rng |-> r]

\* BoolTerminal with the cap of generateArithmetic (depth > 2).
BoolTerminal_ArithCap(depth, r) ==
    IF depth > ArithMaxDepth THEN [stop |-> TRUE, rng |-> r]
    ELSE IF depth > 0 THEN [stop |-> (Mod(Draw(r), 2) = 0), rng |-> Advance(r)]
    ELSE [stop |-> FALSE, rng |-> r]

\* The condition  depth > 1 || (depth > 0 && rng() % 2 == 0)  of
\* generateBooleanExpr.
BoolTerminal(depth, r) ==
    IF depth > BoolMaxDepth THEN [stop |-> TRUE, rng |-> r]
    ELSE IF depth > 0 THEN [stop |-> (Mod(Draw(r), 2) = 0), rng |-> Advance(r)]
    ELSE [stop |-> FALSE, rng |-> r]

\* switch (rng() % 3) of generateArithmetic.
ArithKind(raw) ==
    CASE Mod(raw, 3) = 0 -> "ADD"
      [] Mod(raw, 3) = 1 -> "SUB"
      [] Mod(raw, 3) = 2 -> "MULT"
      [] OTHER       -> "ADD"

\* switch (rng() % 3) of the comparison branch of generateBooleanExpr.
CmpKind(raw) ==
    CASE Mod(raw, 3) = 0 -> "GT"
      [] Mod(raw, 3) = 1 -> "LT"
      [] Mod(raw, 3) = 2 -> "EQUAL"
      [] OTHER       -> "EQUAL"

\* switch (rng() % 3) of the connective branch of generateBooleanExpr.
BoolKind(raw) ==
    CASE Mod(raw, 3) = 0 -> "AND"
      [] Mod(raw, 3) = 1 -> "OR"
      [] Mod(raw, 3) = 2 -> "XOR"
      [] OTHER       -> "AND"

---------------------------------------------------------------------------
(* The call stack of generateArithmetic / generateBooleanExpr *)

NoRet == [fn |-> "none", depth |-> 0, term |-> <<>>]
Returned(fn, depth, term) == [fn |-> fn, depth |-> depth, term |-> term]

\* A fresh activation of fn at the given depth.
Frame(fn, depth) == [fn |-> fn, depth |-> depth, pc |-> "start", left |-> <<>>]

Top == stack[Len(stack)]
Pop == SubSeq(stack, 1, Len(stack) - 1)
\* The running activation moves to position p (keeping or setting its left
\* operand) and calls fn(depth).
CallFrom(p, left, fn, depth) ==
    Append(Pop, [Top EXCEPT !.pc = p, !.left = left]) \o <<Frame(fn, depth)>>

AtFrame(fn, p) == stack # <<>> /\ Top.fn = fn /\ Top.pc = p
CanCall == Len(stack) < MaxStack

DriverVars == <<pc, num_tests, constraints_per_test, test_num, i, constraints,
                solver, calls, out, prev>>

\* generateArithmetic(depth), up to its first recursive call.
ArithStart ==
    /\ AtFrame("arith", "start")
    /\ \E t \in {ArithTerminal(Top.depth, rng)} :
         IF t.stop
         THEN \E g \in {generateInteger(t.rng, IntMin, IntMax)} :
                /\ ret' = Returned("arith", Top.depth, g.term)
                /\ rng' = g.rng
                /\ stack' = Pop
         ELSE /\ CanCall
              /\ rng' = t.rng
              /\ stack' = CallFrom("left", <<>>, "arith", Top.depth + 1)
              /\ ret' = NoRet
    /\ UNCHANGED DriverVars

\* left has returned: right = generateArithmetic(depth + 1).
ArithLeft ==
    /\ AtFrame("arith", "left")
    /\ ret.fn # "none"
    /\ CanCall
    /\ stack' = CallFrom("right", ret.term, "arith", Top.depth + 1)
    /\ ret' = NoRet
    /\ UNCHANGED <<rng, DriverVars>>

\* right has returned: pick the operator and return mkTerm(kind, {left, right}).
ArithRight ==
    /\ AtFrame("arith", "right")
    /\ ret.fn # "none"
    /\ ret' = Returned("arith", Top.depth,
                       mkTerm(ArithKind(Draw(rng)), <<Top.left, ret.term>>))
    /\ rng' = Advance(rng)
    /\ stack' = Pop
    /\ UNCHANGED DriverVars

\* BoolStart handing its own depth on to generateArithmetic: one depth budget
\* shared by the two generators.
BoolStart_SharedDepth ==
    /\ AtFrame("bool", "start")
    /\ LET t == BoolTerminal(Top.depth, rng) IN
         IF t.stop
         THEN IF Mod(Draw(t.rng), 2) = 0
              THEN LET g == generateBoolean(Advance(t.rng)) IN
                     /\ ret' = Returned("bool", Top.depth, g.term)
                     /\ rng' = g.rng
                     /\ stack' = Pop
              ELSE /\ CanCall
                   /\ rng' = Advance(t.rng)
                   /\ stack' = CallFrom("cmpLeft", <<>>, "arith", Top.depth)
                   /\ ret' = NoRet
         ELSE /\ CanCall
              /\ rng' = t.rng
              /\ stack' = CallFrom("left", <<>>, "bool", Top.depth + 1)
              /\ ret' = NoRet
    /\ UNCHANGED DriverVars

\* generateBooleanExpr(depth), up to its first call.
BoolStart ==
    /\ AtFrame("bool", "start")
    /\ LET t == BoolTerminal(Top.depth, rng) IN
         IF t.stop
         THEN IF Mod(Draw(t.rng), 2) = 0
              THEN LET g == generateBoolean(Advance(t.rng)) IN
                     /\ ret' = Returned("bool", Top.depth, g.term)
                     /\ rng' = g.rng
                     /\ stack' = Pop
              ELSE /\ CanCall
                   /\ rng' = Advance(t.rng)
                   /\ stack' = CallFrom("cmpLeft", <<>>, "arith", 0)
                   /\ ret' = NoRet
         ELSE /\ CanCall
              /\ rng' = t.rng
              /\ stack' = CallFrom("left", <<>>, "bool", Top.depth + 1)
              /\ ret' = NoRet
    /\ UNCHANGED DriverVars

\* BoolCmpLeft generating the right operand with generateBoolean().
BoolCmpLeft_BoolOperand ==
    /\ AtFrame("bool", "cmpLeft")
    /\ ret.fn # "none"
    /\ LET g == generateBoolean(rng) IN
         /\ ret' = Returned("bool", Top.depth,
                            mkTerm(CmpKind(Draw(g.rng)), <<ret.term, g.term>>))
         /\ rng' = Advance(g.rng)
    /\ stack' = Pop
    /\ UNCHANGED DriverVars

\* Comparison branch, left has returned: right = generateArithmetic().
BoolCmpLeft ==
    /\ AtFrame("bool", "cmpLeft")
    /\ ret.fn # "none"
    /\ CanCall
    /\ stack' = CallFrom("cmpRight", ret.term, "arith", 0)
    /\ ret' = NoRet
    /\ UNCHANGED <<rng, DriverVars>>

\* Comparison branch, right has returned: pick GT / LT / EQUAL and return.
BoolCmpRight ==
    /\ AtFrame("bool", "cmpRight")
    /\ ret.fn # "none"
    /\ ret' = Returned("bool", Top.depth,
                       mkTerm(CmpKind(Draw(rng)), <<Top.left, ret.term>>))
    /\ rng' = Advance(rng)
    /\ stack' = Pop
    /\ UNCHANGED DriverVars

\* Connective branch, left has returned: right = generateBooleanExpr(depth + 1).
BoolLeft ==
    /\ AtFrame("bool", "left")
    /\ ret.fn # "none"
    /\ CanCall
    /\ stack' = CallFrom("right", ret.term, "bool", Top.depth + 1)
    /\ ret' = NoRet
    /\ UNCHANGED <<rng, DriverVars>>

\* Connective branch, right has returned: pick AND / OR / XOR and return.
BoolRight ==
    /\ AtFrame("bool", "right")
    /\ ret.fn # "none"
    /\ ret' = Returned("bool", Top.depth,
                       mkTerm(BoolKind(Draw(rng)), <<Top.left, ret.term>>))
    /\ rng' = Advance(rng)
    /\ stack' = Pop
    /\ UNCHANGED DriverVars

generateArithmetic == ArithStart \/ ArithLeft \/ ArithRight

generateBooleanExpr ==
    BoolStart \/ BoolCmpLeft \/ BoolCmpRight \/ BoolLeft \/ BoolRight

---------------------------------------------------------------------------
(* History variables *)

SolverCall(op, term, result) == [op |-> op, term |-> term, result |-> result]
Line(line, n, text) == [line |-> line, n |-> n, text |-> text]

NoPrev == [set |-> FALSE, seed |-> <<>>, terms |-> <<>>,
           num_tests |-> 0, constraints_per_test |-> 0]

RECURSIVE SelectTexts(_, _)
\* The texts of the lines of kind `line`, in the order written.
SelectTexts(lines, line) ==
    IF lines = <<>> THEN <<>>
    ELSE IF Head(lines).line = line
         THEN <<Head(lines).text>> \o SelectTexts(Tail(lines), line)
         ELSE SelectTexts(Tail(lines), line)

\* The terms a campaign has generated, as it printed them.
GeneratedTerms == SelectTexts(out, "Constraint")

---------------------------------------------------------------------------
(* TypeFuzz::TypeFuzz and the callers of its public methods *)

\* The state a constructed TypeFuzz is in: rng(std::random_device{}()), and a
\* default-constructed solver.
Constructed(seed) ==
    /\ pc = "idle"
    /\ num_tests = 0
    /\ constraints_per_test = 0
    /\ test_num = 0
    /\ i = 0
    /\ constraints = <<>>
    /\ solver = <<>>
    /\ rng = mt19937(seed)
    /\ stack = <<>>
    /\ ret = NoRet
    /\ calls = <<>>
    /\ out = <<>>
    /\ prev = NoPrev

Init == \E seed \in CampaignSeeds : Constructed(seed)

TestCounts == (0 - 1)..MaxTests
ConstraintCounts == (0 - 1)..MaxConstraints
StartDepths == 0..MaxStartDepth

\* A caller invokes generateArithmetic(depth) on the fresh object.
CallGenerateArithmetic ==
    /\ pc = "idle"
    /\ \E depth \in StartDepths : stack' = <<Frame("arith", depth)>>
    /\ pc' = "client"
    /\ UNCHANGED <<num_tests, constraints_per_test, test_num, i, constraints,
                   solver, rng, ret, calls, out, prev>>

\* A caller invokes generateBooleanExpr(depth) on the fresh object.
CallGenerateBooleanExpr ==
    /\ pc = "idle"
    /\ \E depth \in StartDepths : stack' = <<Frame("bool", depth)>>
    /\ pc' = "client"
    /\ UNCHANGED <<num_tests, constraints_per_test, test_num, i, constraints,
                   solver, rng, ret, calls, out, prev>>

\* A caller invokes generateInteger(min, max) on the fresh object.
CallGenerateInteger ==
    /\ pc = "idle"
    /\ \E rg \in IntRanges :
          \E g \in {generateInteger(rng, rg[1], rg[2])} :
            /\ ret' = Returned("int", 0, g.term)
            /\ rng' = g.rng
    /\ pc' = "client"
    /\ UNCHANGED <<num_tests, constraints_per_test, test_num, i, constraints,
                   solver, stack, calls, out, prev>>

\* A caller invokes generateBoolean() on the fresh object.
CallGenerateBoolean ==
    /\ pc = "idle"
    /\ LET g == generateBoolean(rng) IN
         /\ ret' = Returned("boolean", 0, g.term)
         /\ rng' = g.rng
    /\ pc' = "client"
    /\ UNCHANGED <<num_tests, constraints_per_test, test_num, i, constraints,
                   solver, stack, calls, out, prev>>

\* The generator called by the caller has returned.
ClientReturn ==
    /\ pc = "client"
    /\ stack = <<>>
    /\ ret.fn # "none"
    /\ pc' = "done"
    /\ UNCHANGED <<num_tests, constraints_per_test, test_num, i, constraints,
                   solver, rng, stack, ret, calls, out, prev>>

---------------------------------------------------------------------------
(* TypeFuzz::fuzz *)

\* fuzz(num_tests, constraints_per_test) is entered: the banner, test_num = 0.
FuzzEnter(n, k) ==
    /\ pc = "idle"
    /\ num_tests' = n
    /\ constraints_per_test' = k
    /\ test_num' = 0
    /\ out' = Append(out, Line("banner", 0, <<>>))
    /\ pc' = "outer"
    /\ UNCHANGED <<i, constraints, solver, rng, stack, ret, calls, prev>>

CallFuzz == \E n \in TestCounts, k \in ConstraintCounts : FuzzEnter(n, k)

\* main: TypeFuzz fuzzer; fuzzer.fuzz(3, 2).
Main == FuzzEnter(MainTests, MainConstraints)

\* for (test_num ...; test_num < num_tests; ...): the test of the outer loop,
\* then either the head of its body or the closing lines of fuzz.
OuterLoop ==
    /\ pc = "outer"
    /\ IF test_num < num_tests
       THEN /\ out' = Append(out, Line("Test Case", test_num + 1, <<>>))
            /\ constraints' = <<>>
            /\ i' = 0
            /\ pc' = "inner"
       ELSE /\ out' = Append(out, Line("completed", num_tests, <<>>))
            /\ pc' = "done"
            /\ UNCHANGED <<constraints, i>>
    /\ UNCHANGED <<num_tests, constraints_per_test, test_num, solver, rng,
                   stack, ret, calls, prev>>

\* InnerLoop with the loop test written i <= constraints_per_test.
InnerLoop_OffByOne ==
    /\ pc = "inner"
    /\ IF i <= constraints_per_test
       THEN /\ stack' = <<Frame("bool", 0)>>
            /\ pc' = "gen"
       ELSE /\ pc' = "check"
            /\ UNCHANGED stack
    /\ UNCHANGED <<num_tests, constraints_per_test, test_num, i, constraints,
                   solver, rng, ret, calls, out, prev>>

\* for (i ...; i < constraints_per_test; ...): the test of the inner loop, then
\* either the call generateBooleanExpr() or the statement after the loop.
InnerLoop ==
    /\ pc = "inner"
    /\ IF i < constraints_per_test
       THEN /\ stack' = <<Frame("bool", 0)>>
            /\ pc' = "gen"
       ELSE /\ pc' = "check"
            /\ UNCHANGED stack
    /\ UNCHANGED <<num_tests, constraints_per_test, test_num, i, constraints,
                   solver, rng, ret, calls, out, prev>>

\* The rest of the inner loop's body once generateBooleanExpr() has returned:
\* constraints.push_back, solver.assertFormula, the printed line, ++i.
InnerBody ==
    /\ pc = "gen"
    /\ stack = <<>>
    /\ ret.fn # "none"
    /\ constraints' = Append(constraints, ret.term)
    /\ solver' = assertFormula(solver, ret.term)
    /\ calls' = Append(calls, SolverCall("assertFormula", ret.term, ""))
    /\ out' = Append(out, Line("Constraint", i, ret.term))
    /\ i' = i + 1
    /\ ret' = NoRet
    /\ pc' = "inner"
    /\ UNCHANGED <<num_tests, constraints_per_test, test_num, rng, stack, prev>>

\* result = solver.checkSat(), and the lines that report it.
CheckSat ==
    /\ pc = "check"
    /\ LET r == checkSat(solver) IN
         /\ solver' = r.solver
         /\ calls' = Append(calls, SolverCall("checkSat", <<>>, r.result))
         /\ out' = out \o <<Line("Satisfiability", test_num + 1, <<r.result>>),
                            Line(IF isSat THEN "SATISFIABLE" ELSE "UNSATISFIABLE",
                                 test_num + 1, <<>>)>>
    /\ pc' = "reset"
    /\ UNCHANGED <<num_tests, constraints_per_test, test_num, i, constraints,
                   rng, stack, ret, prev>>

\* Reset leaving the loop once a satisfiable test case has been seen.
Reset_StopsOnSat ==
    /\ pc = "reset"
    /\ solver' = resetAssertions(solver)
    /\ calls' = Append(calls, SolverCall("resetAssertions", <<>>, ""))
    /\ test_num' = test_num + 1
    /\ pc' = IF isSat THEN "done" ELSE "outer"
    /\ UNCHANGED <<num_tests, constraints_per_test, i, constraints, rng, stack,
                   ret, out, prev>>

\* solver.resetAssertions(), then ++test_num.
Reset ==
    /\ pc = "reset"
    /\ solver' = resetAssertions(solver)
    /\ calls' = Append(calls, SolverCall("resetAssertions", <<>>, ""))
    /\ test_num' = test_num + 1
    /\ pc' = "outer"
    /\ UNCHANGED <<num_tests, constraints_per_test, i, constraints, rng, stack,
                   ret, out, prev>>

fuzz == CallFuzz \/ OuterLoop \/ InnerLoop \/ InnerBody \/ CheckSat \/ Reset

---------------------------------------------------------------------------
(* The program: one constructed TypeFuzz and one call of a public method *)

Next ==
    \/ CallGenerateInteger
    \/ CallGenerateBoolean
    \/ CallGenerateArithmetic
    \/ CallGenerateBooleanExpr
    \/ ClientReturn
    \/ CallFuzz
    \/ Main
    \/ OuterLoop
    \/ InnerLoop
    \/ InnerBody
    \/ CheckSat
    \/ Reset
    \/ ArithStart
    \/ ArithLeft
    \/ ArithRight
    \/ BoolStart
    \/ BoolCmpLeft
    \/ BoolCmpRight
    \/ BoolLeft
    \/ BoolRight

Spec == Init /\ [][Next]_vars

---------------------------------------------------------------------------
(* The generators on their own: one constructed TypeFuzz and one direct call
   of a generator *)

GenInit == \E seed \in Seeds : Constructed(seed)

GenNext ==
    \/ CallGenerateInteger
    \/ CallGenerateBoolean
    \/ CallGenerateArithmetic
    \/ CallGenerateBooleanExpr
    \/ ClientReturn
    \/ ArithStart
    \/ ArithLeft
    \/ ArithRight
    \/ BoolStart
    \/ BoolCmpLeft
    \/ BoolCmpRight
    \/ BoolLeft
    \/ BoolRight

GenSpec == GenInit /\ [][GenNext]_vars

---------------------------------------------------------------------------
(* A second campaign with the same parameters, on a second TypeFuzz object *)

\* The seeds std::random_device hands to the two objects of this scenario.
PairSeeds == SeqsUpTo(1)

PairInit == \E seed \in PairSeeds : Constructed(seed)

\* The first campaign is over: its seed and terms are kept, a second TypeFuzz
\* is constructed (with its own random_device seed) and fuzz is entered with
\* the parameters of the first campaign.
SecondCampaign ==
    /\ pc = "done"
    /\ out # <<>>
    /\ ~prev.set
    /\ prev' = [set |-> TRUE, seed |-> rng.seed, terms |-> GeneratedTerms,
                num_tests |-> num_tests,
                constraints_per_test |-> constraints_per_test]
    /\ \E seed \in PairSeeds : rng' = mt19937(seed)
    /\ solver' = <<>>
    /\ calls' = <<>>
    /\ stack' = <<>>
    /\ ret' = NoRet
    /\ constraints' = <<>>
    /\ i' = 0
    /\ test_num' = 0
    /\ out' = <<Line("banner", 0, <<>>)>>
    /\ pc' = "outer"
    /\ UNCHANGED <<num_tests, constraints_per_test>>

PairNext ==
    \/ CallFuzz
    \/ OuterLoop
    \/ InnerLoop
    \/ InnerBody
    \/ CheckSat
    \/ Reset
    \/ ArithStart
    \/ ArithLeft
    \/ ArithRight
    \/ BoolStart
    \/ BoolCmpLeft
    \/ BoolCmpRight
    \/ BoolLeft
    \/ BoolRight
    \/ SecondCampaign

PairSpec == PairInit /\ [][PairNext]_vars

---------------------------------------------------------------------------
(* cvc5::Solver on its own: a caller making any calls in any order *)

SampleTerms ==
    {mkBoolean(TRUE), mkTerm("GT", <<mkInteger(1), mkInteger(2)>>)}

SolverInit ==
    /\ pc = "solver"
    /\ num_tests = 0
    /\ constraints_per_test = 0
    /\ test_num = 0
    /\ i = 0
    /\ constraints = <<>>
    /\ solver = <<>>
    /\ rng = mt19937(<<RawSamples[1]>>)
    /\ stack = <<>>
    /\ ret = NoRet
    /\ calls = <<>>
    /\ out = <<>>
    /\ prev = NoPrev

SolverFrame ==
    UNCHANGED <<pc, num_tests, constraints_per_test, test_num, i, constraints,
                rng, stack, ret, out, prev>>

SolverAssertFormula ==
    /\ pc = "solver"
    /\ Len(calls) < MaxCalls
    /\ \E t \in SampleTerms :
          /\ solver' = assertFormula(solver, t)
          /\ calls' = Append(calls, SolverCall("assertFormula", t, ""))
    /\ SolverFrame

SolverCheckSat ==
    /\ pc = "solver"
    /\ Len(calls) < MaxCalls
    /\ LET r == checkSat(solver) IN
         /\ solver' = r.solver
         /\ calls' = Append(calls, SolverCall("checkSat", <<>>, r.result))
    /\ SolverFrame

SolverResetAssertions ==
    /\ pc = "solver"
    /\ Len(calls) < MaxCalls
    /\ solver' = resetAssertions(solver)
    /\ calls' = Append(calls, SolverCall("resetAssertions", <<>>, ""))
    /\ SolverFrame

SolverNext == SolverAssertFormula \/ SolverCheckSat \/ SolverResetAssertions

SolverSpec == SolverInit /\ [][SolverNext]_vars

\* The program runs to completion: no step that can be taken is put off forever.
FairSpec == Spec /\ WF_vars(Next)

---------------------------------------------------------------------------
(* Reading a term back: the tree a printed term denotes, and its typing *)

ArithSymbols == {"+", "-", "*"}
CmpSymbols == {">", "<", "="}
BoolSymbols == {"and", "or", "xor"}
OpSymbols == ArithSymbols \cup CmpSymbols \cup BoolSymbols
BoolLiterals == {"true", "false"}
Reserved == {"(", ")"} \cup OpSymbols \cup BoolLiterals

Max(S) == CHOOSE x \in S : \A y \in S : y <= x

\* What is known of a subterm once read: whether it is well typed, its type,
\* the position after it, its root symbol, the depth of its deepest node and
\* of its deepest operation node (root = 0; -1 when it has none), and the
\* number of connective levels nested in it.
Unreadable ==
    [ok |-> FALSE, ty |-> "Bad", next |-> 0, root |-> "", nodes |-> 0,
     ops |-> 0 - 1, conn |-> 0]

Leaf(ty, tok, p) ==
    [ok |-> TRUE, ty |-> ty, next |-> p + 1, root |-> tok, nodes |-> 0,
     ops |-> 0 - 1, conn |-> 0]

OperandType(sym) == IF sym \in BoolSymbols THEN "Bool" ELSE "Arith"
ResultType(sym) == IF sym \in ArithSymbols THEN "Arith" ELSE "Bool"

Operation(sym, kids, next) ==
    [ok   |-> /\ Len(kids) = 2
              /\ \A j \in 1..Len(kids) :
                    kids[j].ok /\ kids[j].ty = OperandType(sym),
     ty   |-> ResultType(sym),
     next |-> next,
     root |-> sym,
     nodes |-> Max({0} \cup {kids[j].nodes + 1 : j \in 1..Len(kids)}),
     ops  |-> Max({0} \cup {kids[j].ops + 1 :
                              j \in {n \in 1..Len(kids) : kids[n].ops >= 0}}),
     conn |-> (IF sym \in BoolSymbols THEN 1 ELSE 0)
              + Max({0} \cup {kids[j].conn : j \in 1..Len(kids)})]

RECURSIVE ReadTerm(_, _), ReadArgs(_, _, _)

\* The subterm of t that starts at token p.
ReadTerm(t, p) ==
    IF p > Len(t) THEN Unreadable
    ELSE IF t[p] = "("
    THEN IF p + 1 > Len(t) \/ t[p + 1] \notin OpSymbols THEN Unreadable
         ELSE LET a == ReadArgs(t, p + 2, <<>>) IN
                IF a.ok THEN Operation(t[p + 1], a.kids, a.next) ELSE Unreadable
    ELSE IF t[p] = ")" THEN Unreadable
    ELSE IF t[p] \in BoolLiterals THEN Leaf("Bool", t[p], p)
    ELSE IF t[p] \in OpSymbols THEN Unreadable
    ELSE Leaf("Arith", t[p], p)

\* The operands from token p up to the closing parenthesis.
ReadArgs(t, p, kids) ==
    IF p > Len(t) THEN [ok |-> FALSE, next |-> 0, kids |-> kids]
    ELSE IF t[p] = ")" THEN [ok |-> TRUE, next |-> p + 1, kids |-> kids]
    ELSE LET k == ReadTerm(t, p) IN
           IF k.ty = "Bad" THEN [ok |-> FALSE, next |-> 0, kids |-> kids]
           ELSE ReadArgs(t, k.next, Append(kids, k))

Read(t) == ReadTerm(t, 1)

\* t is exactly one well-typed term of type ty.
WellTyped(t, ty) ==
    LET n == Read(t) IN n.ok /\ n.ty = ty /\ n.next = Len(t) + 1

---------------------------------------------------------------------------
(* History read back *)

RECURSIVE SelectCalls(_, _)
SelectCalls(cs, op) ==
    IF cs = <<>> THEN <<>>
    ELSE IF Head(cs).op = op
         THEN <<Head(cs)>> \o SelectCalls(Tail(cs), op)
         ELSE SelectCalls(Tail(cs), op)

RECURSIVE SelectLines(_, _)
SelectLines(lines, line) ==
    IF lines = <<>> THEN <<>>
    ELSE IF Head(lines).line = line
         THEN <<Head(lines)>> \o SelectLines(Tail(lines), line)
         ELSE SelectLines(Tail(lines), line)

Ops(cs) == [j \in 1..Len(cs) |-> cs[j].op]

RECURSIVE Repeat(_, _)
Repeat(x, n) == IF n <= 0 THEN <<>> ELSE <<x>> \o Repeat(x, n - 1)

\* One iteration of the campaign as a sequence of solver calls.
IterationOps(k) == Repeat("assertFormula", k) \o <<"checkSat", "resetAssertions">>

RECURSIVE CampaignOps(_, _)
CampaignOps(n, k) ==
    IF n <= 0 THEN <<>> ELSE IterationOps(k) \o CampaignOps(n - 1, k)

IsPrefix(a, b) == Len(a) <= Len(b) /\ SubSeq(b, 1, Len(a)) = a

\* The position of the last "Test Case" line of out (0 when there is none).
LastTestCase ==
    Max({0} \cup {j \in 1..Len(out) : out[j].line = "Test Case"})

\* The terms generated since the current iteration began, in generation order.
CurrentIterationTerms ==
    SelectTexts(SubSeq(out, LastTestCase + 1, Len(out)), "Constraint")

InCampaign == pc \in {"outer", "inner", "gen", "check", "reset"}
CampaignDone == pc = "done" /\ out # <<>>

---------------------------------------------------------------------------
(* The claims *)

\* The number of assertFormula calls made for each checkSat call: those since
\* the checkSat before it.
RECURSIVE AssertsPerCheck(_, _)
AssertsPerCheck(cs, n) ==
    IF cs = <<>> THEN <<>>
    ELSE IF Head(cs).op = "checkSat" THEN <<n>> \o AssertsPerCheck(Tail(cs), 0)
    ELSE IF Head(cs).op = "assertFormula" THEN AssertsPerCheck(Tail(cs), n + 1)
    ELSE AssertsPerCheck(Tail(cs), n)

\* C1: a finished campaign fuzz(N, K) with N >= 1 and K >= 1 has run exactly N
\* test cases with one checkSat each, and in every test case exactly K terms
\* were generated and asserted.
C1_ExactCounts ==
    (CampaignDone /\ num_tests >= 1 /\ constraints_per_test >= 1) =>
        /\ Len(SelectLines(out, "Test Case")) = num_tests
        /\ Len(SelectCalls(calls, "checkSat")) = num_tests
        /\ AssertsPerCheck(calls, 0) = Repeat(constraints_per_test, num_tests)
        /\ Len(GeneratedTerms) = num_tests * constraints_per_test
        /\ [j \in 1..Len(SelectCalls(calls, "assertFormula")) |->
               SelectCalls(calls, "assertFormula")[j].term] = GeneratedTerms

C1_Witness ==
    /\ CampaignDone
    /\ num_tests = 2
    /\ constraints_per_test = 2
    /\ Len(SelectCalls(calls, "checkSat")) = 2
    /\ Len(GeneratedTerms) = 4

\* C2: in every iteration the solver sees constraints_per_test assertFormula
\* calls, then one checkSat, then one resetAssertions; at every checkSat the
\* solver holds exactly the terms generated in the current iteration, in
\* generation order; it holds nothing when an iteration starts and when the
\* campaign has ended.
C2_IterationOrder ==
    /\ (InCampaign \/ CampaignDone) =>
          IsPrefix(Ops(calls), CampaignOps(num_tests, constraints_per_test))
    /\ CampaignDone =>
          /\ Ops(calls) = CampaignOps(num_tests, constraints_per_test)
          /\ solver = <<>>
    /\ pc \in {"check", "reset"} => solver = CurrentIterationTerms
    /\ pc = "outer" => solver = <<>>
    /\ (pc = "inner" /\ i = 0) => solver = <<>>

C2_Witness ==
    /\ pc = "check"
    /\ test_num = 1
    /\ Len(solver) = 2
    /\ solver = CurrentIterationTerms
    /\ Len(GeneratedTerms) = 4

\* C3: every term generateBooleanExpr returns, at whatever depth it was called,
\* is one well-typed Boolean term: arithmetic operators and comparisons have
\* exactly two Arithmetic operands, connectives exactly two Boolean operands.
C3_WellTyped ==
    ret.fn = "bool" => WellTyped(ret.term, "Bool")

C3_Witness ==
    /\ ret.fn = "bool"
    /\ ret.depth = 0
    /\ Read(ret.term).conn = 2
    /\ Read(ret.term).nodes >= 5
    /\ WellTyped(ret.term, "Bool")

\* The arithmetic activations on the stack that belong to a call of
\* generateArithmetic started at depth 0.
RootedAtZero(j) ==
    /\ stack[j].fn = "arith"
    /\ \E k \in 1..j : stack[k].fn = "arith" /\ stack[k].depth = 0

\* C4: a term generateArithmetic returns when started at depth 0 has no node
\* deeper than ArithMaxDepth + 1 (root = 0), its operation nodes lie at depths
\* 0..ArithMaxDepth, and while it is built no activation runs deeper than
\* ArithMaxDepth + 1, one at that depth never becoming an operation.
C4_DepthBound ==
    /\ (ret.fn = "arith" /\ ret.depth = 0) =>
          /\ WellTyped(ret.term, "Arith")
          /\ Read(ret.term).nodes <= ArithMaxDepth + 1
          /\ Read(ret.term).ops <= ArithMaxDepth
    /\ \A j \in 1..Len(stack) :
          RootedAtZero(j) =>
             /\ stack[j].depth <= ArithMaxDepth + 1
             /\ stack[j].pc # "start" => stack[j].depth <= ArithMaxDepth

C4_Witness ==
    /\ ret.fn = "arith"
    /\ ret.depth = 0
    /\ Read(ret.term).nodes = ArithMaxDepth + 1
    /\ Read(ret.term).ops = ArithMaxDepth

\* C5: every call of generateArithmetic and generateBooleanExpr returns,
\* whatever the depth it starts at and whatever the engine draws, the recursion
\* never outgrowing the stack: every caller, the campaign included, eventually
\* reaches its end, which it does only once every generator call it made has
\* returned (with a term, for a direct call).
C5_Terminates ==
    /\ [](Len(stack) < MaxStack)
    /\ [](pc = "done" => (stack = <<>> /\ (out = <<>> => ret.fn # "none")))
    /\ <>(pc = "done")

\* A campaign that finished although no coin ever stopped a recursion early
\* (every output is 1: 1 % 3 # 0 and 1 % 2 # 0).
C5_Witness ==
    /\ CampaignDone
    /\ rng.seed = <<Word(0, 1)>>
    /\ num_tests = 2
    /\ constraints_per_test = 2
    /\ Len(GeneratedTerms) = 4

\* C8: the outcome of every checkSat is written for its own iteration, the
\* solver is reset after it, and the campaign ends only when all num_tests
\* iterations have run: no outcome ends it early or repeats an iteration.
C8_OutcomesRecorded ==
    LET checks == SelectCalls(calls, "checkSat")
        lines  == SelectLines(out, "Satisfiability")
        resets == SelectCalls(calls, "resetAssertions")
    IN  (InCampaign \/ CampaignDone) =>
          /\ Len(lines) = Len(checks)
          /\ \A j \in 1..Len(lines) :
                lines[j].n = j /\ lines[j].text = <<checks[j].result>>
          /\ Len(resets) = test_num
          /\ Len(checks) = test_num + (IF pc = "reset" THEN 1 ELSE 0)
          /\ CampaignDone =>
                /\ test_num = (IF num_tests > 0 THEN num_tests ELSE 0)
                /\ out[Len(out)].line = "completed"

C8_Witness ==
    /\ CampaignDone
    /\ num_tests = 2
    /\ Len(SelectLines(out, "Satisfiability")) = 2
    /\ SelectLines(out, "Satisfiability")[2].text = <<"sat">>
    /\ Len(SelectCalls(calls, "resetAssertions")) = 2

ConnectiveRoot(t) == Read(t).root \in BoolSymbols

\* C10: generateBooleanExpr called at depth 0 returns a connective, called at a
\* depth above 1 it returns no connective; so every constraint, when the
\* driver has just asserted it, has a connective at its root and nests
\* connectives at most two levels deep.
C10_BooleanDepthRule ==
    /\ ret.fn = "bool" =>
          /\ ret.depth = 0 => ConnectiveRoot(ret.term)
          /\ ret.depth > BoolMaxDepth => ~ConnectiveRoot(ret.term)
          /\ Read(ret.term).conn <= BoolMaxDepth + 1
    /\ (pc = "inner" /\ solver # <<>>) =>
          /\ ConnectiveRoot(solver[Len(solver)])
          /\ Read(solver[Len(solver)]).conn <= BoolMaxDepth + 1

\* generateBooleanExpr(1) has returned a connective, whose operands were
\* generated at depth 2.
C10_Witness ==
    /\ ret.fn = "bool"
    /\ ret.depth = 1
    /\ ConnectiveRoot(ret.term)
    /\ Read(ret.term).conn = 1

\* generateBooleanExpr(1) can also return a literal or a comparison.
C10_Depth1Terminal ==
    /\ ret.fn = "bool"
    /\ ret.depth = 1
    /\ ~ConnectiveRoot(ret.term)

\* C6 as claimed: the caller fixes everything the interface lets them fix (the
\* parameters of fuzz; the constructor takes no seed), runs two campaigns, and
\* gets the same sequence of generated terms from both.
C6_Reproducible ==
    (prev.set /\ CampaignDone) => GeneratedTerms = prev.terms

\* What does hold: were the two engines seeded alike, the two campaigns
\* generated the same terms.
C6_SameSeedSameTerms ==
    (prev.set /\ CampaignDone /\ rng.seed = prev.seed) =>
        GeneratedTerms = prev.terms

InvalidParameters == num_tests <= 0 \/ constraints_per_test <= 0

\* C7 as claimed: fuzz called with num_tests <= 0 or constraints_per_test <= 0
\* generates nothing, calls neither assertFormula nor checkSat, and does not
\* end as a campaign that ran to completion.
C7_InvalidRejected ==
    ((InCampaign \/ CampaignDone) /\ InvalidParameters) =>
        /\ pc \notin {"inner", "gen", "check", "reset"}
        /\ calls = <<>>
        /\ GeneratedTerms = <<>>
        /\ ~(pc = "done" /\ out[Len(out)].line = "completed")

\* The constraints a solver holds after the calls cs, were assertFormula to
\* append its argument, resetAssertions to clear and checkSat to change nothing.
RECURSIVE AssertedSinceReset(_)
AssertedSinceReset(cs) ==
    IF cs = <<>> THEN <<>>
    ELSE LET last == cs[Len(cs)]
             before == AssertedSinceReset(SubSeq(cs, 1, Len(cs) - 1))
         IN  IF last.op = "resetAssertions" THEN <<>>
             ELSE IF last.op = "assertFormula" THEN Append(before, last.term)
             ELSE before

\* C9: after any sequence of calls the solver holds exactly the terms asserted
\* since the last resetAssertions, in order (assertFormula appends its term,
\* resetAssertions empties, checkSat changes nothing), and checkSat calls that
\* follow one another return the same outcome.
C9_SolverEffects ==
    /\ solver = AssertedSinceReset(calls)
    /\ \A j \in 1..(Len(calls) - 1) :
          (calls[j].op = "checkSat" /\ calls[j + 1].op = "checkSat") =>
              calls[j].result = calls[j + 1].result

C9_Witness ==
    /\ pc = "solver"
    /\ Len(calls) = 4
    /\ Ops(calls) = <<"assertFormula", "checkSat", "checkSat", "assertFormula">>
    /\ Len(solver) = 2

\* The tokens generateInteger can print with its default range.
IntTokens == {ToString(v) : v \in IntMin..IntMax}

\* The integer literals of the subterm of t that starts at token p, each with
\* the number of arithmetic operations that enclose it, d of them enclosing
\* the subterm itself.
RECURSIVE IntLiterals(_, _, _)
IntLiterals(t, p, d) ==
    IF p > Len(t) THEN {}
    ELSE IF t[p] = "("
    THEN IF p + 1 > Len(t) THEN {}
         ELSE LET kids  == ReadArgs(t, p + 2, <<>>).kids
                  below == IF t[p + 1] \in ArithSymbols THEN d + 1 ELSE d
                  start(j) == IF j = 1 THEN p + 2 ELSE kids[j - 1].next
              IN  UNION {IntLiterals(t, start(j), below) : j \in 1..Len(kids)}
    ELSE IF t[p] \in Reserved THEN {}
    ELSE {[depth |-> d, tok |-> t[p]]}

\* The operand lists of the comparisons of t, each operand as Read describes it.
ComparisonOperands(t) ==
    {ReadArgs(t, p + 2, <<>>).kids :
        p \in {q \in 1..(Len(t) - 1) : t[q] = "(" /\ t[q + 1] \in CmpSymbols}}

\* C11: whatever the depth generateBooleanExpr runs at, it starts the operands
\* of a comparison with generateArithmetic at depth 0; so in every term it
\* returns each comparison has two operands that are Add/Sub/Mult operations,
\* never bare literals, and every integer literal lies 1 to ArithMaxDepth + 1
\* arithmetic levels below its comparison and prints a value of
\* IntMin..IntMax.
C11_IndependentDepthBudgets ==
    /\ \A j \in 2..Len(stack) :
          (stack[j].fn = "arith" /\ stack[j - 1].fn = "bool") =>
              /\ stack[j].depth = 0
              /\ stack[j - 1].pc \in {"cmpLeft", "cmpRight"}
    /\ ret.fn = "bool" =>
          /\ \A kids \in ComparisonOperands(ret.term) :
                /\ Len(kids) = 2
                /\ \A j \in 1..Len(kids) : kids[j].root \in ArithSymbols
          /\ \A l \in IntLiterals(ret.term, 1, 0) :
                /\ l.depth >= 1
                /\ l.depth <= ArithMaxDepth + 1
                /\ l.tok \in IntTokens

\* generateBooleanExpr(2) has returned a comparison with literals at the
\* arithmetic depths 1 and 3 and with both extremes of the range.
C11_Witness ==
    /\ ret.fn = "bool"
    /\ ret.depth = BoolMaxDepth + 1
    /\ Read(ret.term).root \in CmpSymbols
    /\ {1, ArithMaxDepth + 1}
          \subseteq {l.depth : l \in IntLiterals(ret.term, 1, 0)}
    /\ {ToString(IntMin), ToString(IntMax)}
          \subseteq {l.tok : l \in IntLiterals(ret.term, 1, 0)}

====
